---- MODULE Spec2Model ----
(***************************************************************************)
(* BUSE (block device in user space): a model of src/buse.c.               *)
(*                                                                         *)
(* The server process runs buse_main and then serve_nbd, the request/reply *)
(* loop on its end of the socket pair.  The peer of the socket (the nbd    *)
(* kernel driver), the callbacks of the buse_operations table and the      *)
(* system calls are the environment: their results are chosen with \E.     *)
(*                                                                         *)
(* A 32-bit word is a tuple of four bytes, most significant first.  A      *)
(* struct field holds the memory image of a word, which is also what is    *)
(* written to or read from the socket.  assert() is compiled in (no        *)
(* NDEBUG), NBD_FLAG_SEND_FLUSH and NBD_FLAG_SEND_TRIM are defined.        *)
(***************************************************************************)
EXTENDS Integers, Sequences, FiniteSets, TLC

\* ---------------------------------------------------------------- bounds
MaxRequests == 2      \* request headers the peer sends in one session
MaxLen      == 2      \* largest request length, in bytes
MaxOffset   == 1      \* largest request offset
MaxSignals  == 2      \* signals delivered to the server process
MaxSessionRequests == 1   \* request headers of a session started by buse_main
MaxSessionLen      == 1   \* largest request length of such a session

\* ------------------------------------------------------ program constants
NBD_REQUEST_MAGIC == 627086611     \* 0x25609513
NBD_REPLY_MAGIC   == 1732535960    \* 0x67446698
NBD_CMD_READ      == 0
NBD_CMD_WRITE     == 1
NBD_CMD_DISC      == 2
NBD_CMD_FLUSH     == 3
NBD_CMD_TRIM      == 4
EPERM             == 1
EXIT_SUCCESS      == 0
EXIT_FAILURE      == 1
SizeofRequest     == 28            \* sizeof(struct nbd_request)
SizeofReply       == 16            \* sizeof(struct nbd_reply)

\* descriptors open() returns for the nbd device
DevFds == {5}
\* status values a callback of the operation table may return
CallbackStatuses == {0, 5}
\* results of a read() of the request header that is neither complete,
\* nor end of stream, nor an error
ShortReads == {1, SizeofRequest - 1}

\* request handles (opaque to the server), lengths, offsets, and the command
\* types on the wire: the five known ones and an unknown one
Handles  == {1, 2}
Lengths  == 0..MaxLen
Offsets  == {0, MaxOffset}
CmdTypes == 0..(NBD_CMD_TRIM + 1)

\* ------------------------------------------------------------ wire codec
\* the word of a number below 2^31
Word(x) == << x \div 16777216, (x \div 65536) % 256, (x \div 256) % 256, x % 256 >>
\* the number of a word (bounded by the values the model uses)
Val(w) == ((w[1] * 256 + w[2]) * 256 + w[3]) * 256 + w[4]
Bswap(w) == << w[4], w[3], w[2], w[1] >>

VARIABLES
  bigEndian,    \* the build: WORDS_BIGENDIAN
  aop,          \* the operation table: which callbacks are set
  pc,           \* position of the server process
  retval,       \* value returned by serve_nbd / buse_main, -1 before it returns
  request,      \* struct nbd_request, fields as memory images
  reply,        \* struct nbd_reply, fields as memory images
  len, from,    \* locals of serve_nbd
  chunk,        \* "none", "NULL" (malloc failed) or "buf"
  count,        \* remaining count of the running read_all / write_all
  bytes_read,   \* result of the last read() of a request header
  nReq,         \* history: request headers read in full
  reqHandles,   \* history: handles of the requests that were dispatched to READ, WRITE, FLUSH, TRIM
  wire,         \* history: reply headers written in full, as written
  hdrSent,      \* history: reply header bytes written for the current request
  paySent,      \* history: reply payload bytes written for the current request
  payRead,      \* history: request payload bytes read for the current request
  cbCalled,     \* history: callbacks invoked for the current request, with their arguments
  nbd,          \* local of buse_main: descriptor of the nbd device, -1 while not open
  nbd_dev_to_disconnect,   \* the static of line 88
  handlers,     \* signals of the server process whose action is disconnect_nbd
  ioctls,       \* history: device requests of the server process, with their outcome
  forked,       \* history: results of fork() in the server process
  childPc,      \* position of the controller process, "none" while there is none
  childExit,    \* exit status of the controller process, -1 while it runs
  childIoctls,  \* history: device requests of the controller process
  nSignals,     \* history: signals delivered to the server process
  openFds,      \* descriptors open in the server process: "sp0", "sp1", "nbd"
  sysFailed,    \* history: a read(), write() or open() of the server process failed
                \* after the signal handlers were installed
  sigInRequest  \* history: a signal was delivered while the current request was served

vars == << bigEndian, aop, pc, retval, request, reply, len, from, chunk, count,
           bytes_read, nReq, reqHandles, wire, hdrSent, paySent, payRead, cbCalled,
           nbd, nbd_dev_to_disconnect, handlers, ioctls, forked, childPc, childExit,
           childIoctls, nSignals, openFds, sysFailed, sigInRequest >>

\* htonl / ntohl of <netinet/in.h>: the identity on a big-endian host
Htonl(w) == IF bigEndian THEN w ELSE Bswap(w)
Ntohl(w) == IF bigEndian THEN w ELSE Bswap(w)
\* the memory image of a 32-bit value, and the value of a memory image
ToMem(w)   == IF bigEndian THEN w ELSE Bswap(w)
FromMem(m) == IF bigEndian THEN m ELSE Bswap(m)
\* ntohll: a 64-bit value is the pair <<high word, low word>>.  The memory
\* image m is a pair of word images, lower address first.
Ntohll(m) ==
  IF bigEndian
  THEN << m[1], m[2] >>
  ELSE LET lo == FromMem(m[1])      \* a & 0xffffffff
           hi == FromMem(m[2])      \* a >> 32
       IN  << Ntohl(lo), Ntohl(hi) >>   \* ((u64) lo) << 32 | hi

\* what the peer sends: fields in network byte order
BadMagic == Word(NBD_REPLY_MAGIC)
WireRequests ==
  [ magic  : {Word(NBD_REQUEST_MAGIC)},
    type   : {Word(t) : t \in CmdTypes},
    handle : Handles,
    from   : {<< Word(0), Word(o) >> : o \in Offsets},
    len    : {Word(l) : l \in Lengths} ]
  \cup
  [ magic  : {BadMagic},
    type   : {Word(NBD_CMD_READ), Word(NBD_CMD_DISC)},
    handle : {1},
    from   : {<< Word(0), Word(0) >>},
    len    : {Word(0)} ]

NoRequest == [ magic |-> Word(0), type |-> Word(0), handle |-> 0,
               from |-> << Word(0), Word(0) >>, len |-> Word(0) ]

OperationTables ==
  [ read : BOOLEAN, write : BOOLEAN, disc : BOOLEAN, flush : BOOLEAN, trim : BOOLEAN ]

\* the tables of the sessions started by buse_main: all callbacks or none
SessionTables ==
  { [read |-> b, write |-> b, disc |-> b, flush |-> b, trim |-> b] : b \in BOOLEAN }

\* what the peer decodes from a reply header on the wire
WireStatus(r) == Val(r.error)

\* the command of the request being served: ntohl(request.type)
Cmd == Val(Ntohl(FromMem(request.type)))
ReplyCmds == {NBD_CMD_READ, NBD_CMD_WRITE, NBD_CMD_FLUSH, NBD_CMD_TRIM}

\* results of one read() or write() of n > 0 bytes on the socket: a failure
\* (-1), end of stream (0, read only), the whole count or a part of it
Transfers(n) == {n} \cup (IF n >= 2 THEN {n \div 2} ELSE {})
ReadResults(n)  == {-1, 0} \cup Transfers(n)
WriteResults(n) == {-1} \cup Transfers(n)
\* malloc(len): allocation may fail, and malloc(0) may return NULL
MallocResults == {"buf", "NULL"}

\* the server process is serving a request whose header it has read
InRequest == pc \in {"cmd_read", "cmd_write", "cmd_disc", "cmd_flush", "cmd_trim",
                     "read_payload", "write_cb", "write_reply", "write_chunk", "break"}

\* a callback of the operation table was called: its arguments and its result
\* (0 for disc, which returns nothing)
NoCall(name) == [cb |-> name, len |-> 0, from |-> << 0, 0 >>, status |-> 0]

serveVars == << request, reply, len, from, chunk, count, bytes_read, nReq,
                reqHandles, wire, hdrSent, paySent, payRead, cbCalled >>
\* the state of buse_main, of the signal handler and of the controller process
mainVars  == << nbd, nbd_dev_to_disconnect, handlers, ioctls, forked, nSignals >>
childVars == << childPc, childExit, childIoctls >>

\* --------------------------------------------------------------- serve_nbd
\* lines 120-121
ServeInit ==
  /\ pc = "serve_init"
  /\ reply' = [reply EXCEPT !.magic = ToMem(Htonl(Word(NBD_REPLY_MAGIC))),
                            !.error = ToMem(Htonl(Word(0)))]
  /\ pc' = "serve_loop"
  /\ UNCHANGED << sysFailed, sigInRequest, openFds, mainVars, childVars, bigEndian, aop,
                  retval, request, len, from, chunk, count,
                  bytes_read, nReq, reqHandles, wire, hdrSent, paySent, payRead, cbCalled >>

\* line 123 with read() = -1, then lines 192-195
ReadError ==
  /\ pc = "serve_loop"
  /\ bytes_read' = -1
  /\ pc' = "returned"
  /\ retval' = EXIT_FAILURE
  /\ sysFailed' = TRUE
  /\ UNCHANGED << sigInRequest, openFds, mainVars, childVars, bigEndian, aop, request, reply,
                  len, from, chunk, count,
                  nReq, reqHandles, wire, hdrSent, paySent, payRead, cbCalled >>

\* line 123 with read() = 0, then line 196
ReadEof ==
  /\ pc = "serve_loop"
  /\ bytes_read' = 0
  /\ pc' = "returned"
  /\ retval' = EXIT_SUCCESS
  /\ UNCHANGED << sysFailed, sigInRequest, openFds, mainVars, childVars, bigEndian, aop,
                  request, reply, len, from, chunk, count,
                  nReq, reqHandles, wire, hdrSent, paySent, payRead, cbCalled >>


\* mutant of ReadShort: a part of a header is taken for the end of the stream
ReadShortAsEof ==
  /\ pc = "serve_loop"
  /\ \E n \in ShortReads : bytes_read' = n
  /\ pc' = "returned"
  /\ retval' = EXIT_SUCCESS
  /\ sysFailed' = TRUE
  /\ UNCHANGED << sigInRequest, openFds, mainVars, childVars, bigEndian, aop, request, reply,
                  len, from, chunk, count,
                  nReq, reqHandles, wire, hdrSent, paySent, payRead, cbCalled >>

\* line 123 with a part of the header read, then the assert of line 124
ReadShort ==
  /\ pc = "serve_loop"
  /\ \E n \in ShortReads : bytes_read' = n
  /\ pc' = "aborted"
  /\ sysFailed' = TRUE
  /\ UNCHANGED << sigInRequest, openFds, mainVars, childVars, bigEndian, aop, retval, request,
                  reply, len, from, chunk, count,
                  nReq, reqHandles, wire, hdrSent, paySent, payRead, cbCalled >>


\* mutant of SwitchTarget: an unknown command is skipped
SwitchTargetIgnore(t) ==
  CASE t = NBD_CMD_READ  -> "cmd_read"
    [] t = NBD_CMD_WRITE -> "cmd_write"
    [] t = NBD_CMD_DISC  -> "cmd_disc"
    [] t = NBD_CMD_FLUSH -> "cmd_flush"
    [] t = NBD_CMD_TRIM  -> "cmd_trim"
    [] OTHER             -> "break"

\* the target of the switch of line 132
SwitchTarget(t) ==
  CASE t = NBD_CMD_READ  -> "cmd_read"
    [] t = NBD_CMD_WRITE -> "cmd_write"
    [] t = NBD_CMD_DISC  -> "cmd_disc"
    [] t = NBD_CMD_FLUSH -> "cmd_flush"
    [] t = NBD_CMD_TRIM  -> "cmd_trim"
    [] OTHER             -> "aborted"

\* mutant of ReadHeaderFrom: the status of the reply is not reset
ReadHeaderNoReset(W, max) ==
  /\ pc = "serve_loop"
  /\ nReq < max
  /\ \E w \in W :
       LET t  == Val(Ntohl(FromMem(w.type)))
           f  == Ntohll(w.from)
           ok == FromMem(w.magic) = Htonl(Word(NBD_REQUEST_MAGIC))
       IN  /\ bytes_read' = SizeofRequest
           /\ request' = w
           /\ reply' = [reply EXCEPT !.handle = w.handle]
           /\ len' = Val(Ntohl(FromMem(w.len)))
           /\ from' = << Val(f[1]), Val(f[2]) >>
           /\ pc' = IF ok THEN SwitchTarget(t) ELSE "aborted"
           /\ reqHandles' = IF ok /\ t \in ReplyCmds
                            THEN Append(reqHandles, w.handle) ELSE reqHandles
  /\ nReq' = nReq + 1
  /\ hdrSent' = 0 /\ paySent' = 0 /\ payRead' = 0 /\ cbCalled' = {}
  /\ sigInRequest' = FALSE
  /\ UNCHANGED << sysFailed, openFds, mainVars, childVars, bigEndian, aop, retval, chunk,
                  count, wire >>

\* mutant of ReadHeaderFrom: the handle of the request is not copied to the reply
ReadHeaderKeepHandle(W, max) ==
  /\ pc = "serve_loop"
  /\ nReq < max
  /\ \E w \in W :
       LET t  == Val(Ntohl(FromMem(w.type)))
           f  == Ntohll(w.from)
           ok == FromMem(w.magic) = Htonl(Word(NBD_REQUEST_MAGIC))
       IN  /\ bytes_read' = SizeofRequest
           /\ request' = w
           /\ reply' = [reply EXCEPT !.error = ToMem(Htonl(Word(0)))]
           /\ len' = Val(Ntohl(FromMem(w.len)))
           /\ from' = << Val(f[1]), Val(f[2]) >>
           /\ pc' = IF ok THEN SwitchTarget(t) ELSE "aborted"
           /\ reqHandles' = IF ok /\ t \in ReplyCmds
                            THEN Append(reqHandles, w.handle) ELSE reqHandles
  /\ nReq' = nReq + 1
  /\ hdrSent' = 0 /\ paySent' = 0 /\ payRead' = 0 /\ cbCalled' = {}
  /\ sigInRequest' = FALSE
  /\ UNCHANGED << sysFailed, openFds, mainVars, childVars, bigEndian, aop, retval, chunk,
                  count, wire >>

\* lines 123-132: a whole header is read; the handle is copied, the status
\* reset, length and offset decoded, the magic asserted, the command switched on
ReadHeaderFrom(W, max) ==
  /\ pc = "serve_loop"
  /\ nReq < max
  /\ \E w \in W :
       LET t  == Val(Ntohl(FromMem(w.type)))
           f  == Ntohll(w.from)
           ok == FromMem(w.magic) = Htonl(Word(NBD_REQUEST_MAGIC))
       IN  /\ bytes_read' = SizeofRequest
           /\ request' = w
           /\ reply' = [reply EXCEPT !.handle = w.handle,
                                     !.error = ToMem(Htonl(Word(0)))]
           /\ len' = Val(Ntohl(FromMem(w.len)))
           /\ from' = << Val(f[1]), Val(f[2]) >>
           /\ pc' = IF ok THEN SwitchTarget(t) ELSE "aborted"
           /\ reqHandles' = IF ok /\ t \in ReplyCmds
                            THEN Append(reqHandles, w.handle) ELSE reqHandles
  /\ nReq' = nReq + 1
  /\ hdrSent' = 0 /\ paySent' = 0 /\ payRead' = 0 /\ cbCalled' = {}
  /\ sigInRequest' = FALSE
  /\ UNCHANGED << sysFailed, openFds, mainVars, childVars, bigEndian, aop, retval, chunk,
                  count, wire >>

\* the peer sends any of WireRequests
ReadHeader == ReadHeaderFrom(WireRequests, MaxRequests)

\* lines 139-147 and the call of line 148
CmdRead ==
  /\ pc = "cmd_read"
  /\ \E c \in MallocResults : chunk' = c
  /\ IF aop.read
     THEN \E s \in CallbackStatuses :
            /\ reply' = [reply EXCEPT !.error = ToMem(Word(s))]
            /\ cbCalled' = cbCalled \cup {[cb |-> "read", len |-> len, from |-> from, status |-> s]}
     ELSE /\ reply' = [reply EXCEPT !.error = ToMem(Htonl(Word(EPERM)))]
          /\ UNCHANGED cbCalled
  /\ count' = SizeofReply
  /\ pc' = "write_reply"
  /\ UNCHANGED << sysFailed, sigInRequest, openFds, mainVars, childVars, bigEndian, aop,
                  retval, request, len, from, bytes_read, nReq,
                  reqHandles, wire, hdrSent, paySent, payRead >>

\* lines 154-155 and the call of line 156
CmdWriteAlloc ==
  /\ pc = "cmd_write"
  /\ \E c \in MallocResults : chunk' = c
  /\ count' = len
  /\ pc' = IF len > 0 THEN "read_payload" ELSE "write_cb"
  /\ UNCHANGED << sysFailed, sigInRequest, openFds, mainVars, childVars, bigEndian, aop,
                  retval, request, reply, len, from, bytes_read, nReq,
                  reqHandles, wire, hdrSent, paySent, payRead, cbCalled >>

\* mutant of ReadAllStep: a single read() instead of the loop of read_all
ReadAllSingleRead ==
  /\ pc = "read_payload"
  /\ count > 0
  /\ \E n \in (IF chunk = "NULL" THEN {-1} ELSE ReadResults(count)) :
       IF n > 0
       THEN /\ count' = count - n
            /\ payRead' = payRead + n
            /\ pc' = "write_cb"
       ELSE /\ pc' = "aborted"
            /\ UNCHANGED << count, payRead >>
  /\ sysFailed' = (sysFailed \/ pc' = "aborted")
  /\ UNCHANGED << sigInRequest, openFds, mainVars, childVars, bigEndian, aop, retval, request,
                  reply, len, from, chunk, bytes_read,
                  nReq, reqHandles, wire, hdrSent, paySent, cbCalled >>

\* read_all, lines 61-67: one read() of the loop
ReadAllStep ==
  /\ pc = "read_payload"
  /\ count > 0
  /\ \E n \in (IF chunk = "NULL" THEN {-1} ELSE ReadResults(count)) :
       IF n > 0
       THEN /\ count' = count - n
            /\ payRead' = payRead + n
            /\ pc' = IF count - n > 0 THEN "read_payload" ELSE "write_cb"
       ELSE /\ pc' = "aborted"
            /\ UNCHANGED << count, payRead >>
  /\ sysFailed' = (sysFailed \/ pc' = "aborted")
  /\ UNCHANGED << sigInRequest, openFds, mainVars, childVars, bigEndian, aop, retval, request,
                  reply, len, from, chunk, bytes_read,
                  nReq, reqHandles, wire, hdrSent, paySent, cbCalled >>

\* mutant of CmdWrite: EPERM is stored without htonl
CmdWriteRawEperm ==
  /\ pc = "write_cb"
  /\ IF aop.write
     THEN \E s \in CallbackStatuses :
            /\ reply' = [reply EXCEPT !.error = ToMem(Word(s))]
            /\ cbCalled' = cbCalled \cup {[cb |-> "write", len |-> len, from |-> from, status |-> s]}
     ELSE /\ reply' = [reply EXCEPT !.error = ToMem(Word(EPERM))]
          /\ UNCHANGED cbCalled
  /\ chunk' = "none"
  /\ count' = SizeofReply
  /\ pc' = "write_reply"
  /\ UNCHANGED << sysFailed, sigInRequest, openFds, mainVars, childVars, bigEndian, aop,
                  retval, request, len, from, bytes_read, nReq,
                  reqHandles, wire, hdrSent, paySent, payRead >>

\* lines 157-163 and the call of line 164
CmdWrite ==
  /\ pc = "write_cb"
  /\ IF aop.write
     THEN \E s \in CallbackStatuses :
            /\ reply' = [reply EXCEPT !.error = ToMem(Word(s))]
            /\ cbCalled' = cbCalled \cup {[cb |-> "write", len |-> len, from |-> from, status |-> s]}
     ELSE /\ reply' = [reply EXCEPT !.error = ToMem(Htonl(Word(EPERM)))]
          /\ UNCHANGED cbCalled
  /\ chunk' = "none"
  /\ count' = SizeofReply
  /\ pc' = "write_reply"
  /\ UNCHANGED << sysFailed, sigInRequest, openFds, mainVars, childVars, bigEndian, aop,
                  retval, request, len, from, bytes_read, nReq,
                  reqHandles, wire, hdrSent, paySent, payRead >>

\* mutant of CmdDisc: a DISCONNECT request is answered like the others
CmdDiscReplies ==
  /\ pc = "cmd_disc"
  /\ cbCalled' = IF aop.disc THEN cbCalled \cup {NoCall("disc")} ELSE cbCalled
  /\ count' = SizeofReply
  /\ pc' = "write_reply"
  /\ UNCHANGED << sysFailed, sigInRequest, openFds, mainVars, childVars, bigEndian, aop,
                  retval, request, reply, len, from, chunk,
                  bytes_read, nReq, reqHandles, wire, hdrSent, paySent, payRead >>

\* lines 168-171
CmdDisc ==
  /\ pc = "cmd_disc"
  /\ cbCalled' = IF aop.disc THEN cbCalled \cup {NoCall("disc")} ELSE cbCalled
  /\ pc' = "returned"
  /\ retval' = EXIT_SUCCESS
  /\ UNCHANGED << sysFailed, sigInRequest, openFds, mainVars, childVars, bigEndian, aop,
                  request, reply, len, from, chunk, count, bytes_read,
                  nReq, reqHandles, wire, hdrSent, paySent, payRead >>

\* mutant of CmdFlush: the reply of a FLUSH request is not written
CmdFlushNoReply ==
  /\ pc = "cmd_flush"
  /\ IF aop.flush
     THEN \E s \in CallbackStatuses :
            /\ reply' = [reply EXCEPT !.error = ToMem(Word(s))]
            /\ cbCalled' = cbCalled \cup {[NoCall("flush") EXCEPT !.status = s]}
     ELSE UNCHANGED << reply, cbCalled >>
  /\ pc' = "break"
  /\ UNCHANGED << sysFailed, sigInRequest, openFds, mainVars, childVars, bigEndian, aop,
                  retval, request, len, from, chunk, count,
                  bytes_read, nReq, reqHandles, wire, hdrSent, paySent, payRead >>

\* lines 174-176 and the call of line 177
CmdFlush ==
  /\ pc = "cmd_flush"
  /\ IF aop.flush
     THEN \E s \in CallbackStatuses :
            /\ reply' = [reply EXCEPT !.error = ToMem(Word(s))]
            /\ cbCalled' = cbCalled \cup {[NoCall("flush") EXCEPT !.status = s]}
     ELSE UNCHANGED << reply, cbCalled >>
  /\ count' = SizeofReply
  /\ pc' = "write_reply"
  /\ UNCHANGED << sysFailed, sigInRequest, openFds, mainVars, childVars, bigEndian, aop,
                  retval, request, len, from, chunk, bytes_read, nReq,
                  reqHandles, wire, hdrSent, paySent, payRead >>

\* lines 182-184 and the call of line 185
CmdTrim ==
  /\ pc = "cmd_trim"
  /\ IF aop.trim
     THEN \E s \in CallbackStatuses :
            /\ reply' = [reply EXCEPT !.error = ToMem(Word(s))]
            /\ cbCalled' = cbCalled \cup {[cb |-> "trim", len |-> len, from |-> from, status |-> s]}
     ELSE UNCHANGED << reply, cbCalled >>
  /\ count' = SizeofReply
  /\ pc' = "write_reply"
  /\ UNCHANGED << sysFailed, sigInRequest, openFds, mainVars, childVars, bigEndian, aop,
                  retval, request, len, from, chunk, bytes_read, nReq,
                  reqHandles, wire, hdrSent, paySent, payRead >>

\* mutant of WriteReplyStep: the payload of a READ is sent only with status 0
WriteReplyNoPayloadOnError ==
  /\ pc = "write_reply"
  /\ count > 0
  /\ \E n \in WriteResults(count) :
       IF n > 0
       THEN /\ hdrSent' = hdrSent + n
            /\ IF count - n > 0
               THEN /\ count' = count - n
                    /\ UNCHANGED << pc, wire, chunk >>
               ELSE /\ wire' = Append(wire, reply)
                    /\ IF Cmd = NBD_CMD_READ /\ len > 0 /\ reply.error = Word(0)
                       THEN /\ pc' = "write_chunk"
                            /\ count' = len
                            /\ UNCHANGED chunk
                       ELSE /\ pc' = "break"
                            /\ count' = 0
                            /\ chunk' = "none"
       ELSE /\ pc' = "aborted"
            /\ UNCHANGED << count, hdrSent, wire, chunk >>
  /\ sysFailed' = (sysFailed \/ pc' = "aborted")
  /\ UNCHANGED << sigInRequest, openFds, mainVars, childVars, bigEndian, aop, retval, request,
                  reply, len, from, bytes_read, nReq,
                  reqHandles, paySent, payRead, cbCalled >>

\* write_all of the reply header (lines 148, 164, 177, 185), lines 76-82:
\* one write() of the loop.  After the last one READ goes on to line 149
\* (and line 151 when len = 0), the others to their break.
WriteReplyStep ==
  /\ pc = "write_reply"
  /\ count > 0
  /\ \E n \in WriteResults(count) :
       IF n > 0
       THEN /\ hdrSent' = hdrSent + n
            /\ IF count - n > 0
               THEN /\ count' = count - n
                    /\ UNCHANGED << pc, wire, chunk >>
               ELSE /\ wire' = Append(wire, reply)
                    /\ IF Cmd = NBD_CMD_READ /\ len > 0
                       THEN /\ pc' = "write_chunk"
                            /\ count' = len
                            /\ UNCHANGED chunk
                       ELSE /\ pc' = "break"
                            /\ count' = 0
                            /\ chunk' = "none"
       ELSE /\ pc' = "aborted"
            /\ UNCHANGED << count, hdrSent, wire, chunk >>
  /\ sysFailed' = (sysFailed \/ pc' = "aborted")
  /\ UNCHANGED << sigInRequest, openFds, mainVars, childVars, bigEndian, aop, retval, request,
                  reply, len, from, bytes_read, nReq,
                  reqHandles, paySent, payRead, cbCalled >>

\* write_all of the READ payload (line 149), lines 76-82, then line 151
WriteChunkStep ==
  /\ pc = "write_chunk"
  /\ count > 0
  /\ \E n \in (IF chunk = "NULL" THEN {-1} ELSE WriteResults(count)) :
       IF n > 0
       THEN /\ paySent' = paySent + n
            /\ count' = count - n
            /\ IF count - n > 0
               THEN UNCHANGED << pc, chunk >>
               ELSE pc' = "break" /\ chunk' = "none"
       ELSE /\ pc' = "aborted"
            /\ UNCHANGED << count, paySent, chunk >>
  /\ sysFailed' = (sysFailed \/ pc' = "aborted")
  /\ UNCHANGED << sigInRequest, openFds, mainVars, childVars, bigEndian, aop, retval, request,
                  reply, len, from, bytes_read, nReq,
                  reqHandles, wire, hdrSent, payRead, cbCalled >>

\* mutant of Break: the loop ends with EXIT_FAILURE after an error reply
BreakStopOnError ==
  /\ pc = "break"
  /\ IF reply.error = Word(0)
     THEN pc' = "serve_loop" /\ UNCHANGED retval
     ELSE pc' = "returned" /\ retval' = EXIT_FAILURE
  /\ request' = NoRequest
  /\ len' = 0 /\ from' = << 0, 0 >>
  /\ hdrSent' = 0 /\ paySent' = 0 /\ payRead' = 0 /\ cbCalled' = {}
  /\ sigInRequest' = FALSE
  /\ UNCHANGED << sysFailed, openFds, mainVars, childVars, bigEndian, aop, reply, chunk,
                  count, bytes_read, nReq,
                  reqHandles, wire >>

\* the break of lines 152, 165, 178, 186, back to line 123.  request, len
\* and from are dead here (lines 123-129 overwrite them before any use):
\* they are cleared, as is the history of the request; reply is kept.
Break ==
  /\ pc = "break"
  /\ pc' = "serve_loop"
  /\ request' = NoRequest
  /\ len' = 0 /\ from' = << 0, 0 >>
  /\ hdrSent' = 0 /\ paySent' = 0 /\ payRead' = 0 /\ cbCalled' = {}
  /\ sigInRequest' = FALSE
  /\ UNCHANGED << sysFailed, openFds, mainVars, childVars, bigEndian, aop, retval, reply,
                  chunk, count, bytes_read, nReq,
                  reqHandles, wire >>

ServeNext ==
  \/ ServeInit \/ ReadError \/ ReadEof \/ ReadShort \/ ReadHeader
  \/ CmdRead \/ CmdWriteAlloc \/ ReadAllStep \/ CmdWrite \/ CmdDisc
  \/ CmdFlush \/ CmdTrim \/ WriteReplyStep \/ WriteChunkStep \/ Break

\* serve_nbd entered on a connected socket, with any operation table
InitServe ==
  /\ bigEndian \in BOOLEAN
  /\ aop \in OperationTables
  /\ pc = "serve_init"
  /\ retval = -1
  /\ request = NoRequest
  /\ reply = [magic |-> Word(0), error |-> Word(0), handle |-> 0]
  /\ len = 0 /\ from = << 0, 0 >>
  /\ chunk = "none" /\ count = 0 /\ bytes_read = 0
  /\ nReq = 0 /\ reqHandles = << >> /\ wire = << >>
  /\ hdrSent = 0 /\ paySent = 0 /\ payRead = 0 /\ cbCalled = {}
  /\ nbd \in DevFds
  /\ nbd_dev_to_disconnect = nbd
  /\ handlers = {"SIGINT", "SIGTERM"}
  /\ ioctls = << [req |-> "NBD_CLEAR_SOCK", ok |-> TRUE] >>
  /\ forked = << TRUE >>
  /\ childPc = "c_do_it" /\ childExit = -1
  /\ childIoctls = << [req |-> "NBD_SET_SOCK", ok |-> TRUE],
                      [req |-> "NBD_SET_FLAGS", ok |-> TRUE] >>
  /\ nSignals = 0
  /\ openFds = {"sp0", "nbd"}
  /\ sysFailed = FALSE /\ sigInRequest = FALSE

SpecServe == InitServe /\ [][ServeNext]_vars

\* ---------------------------------------------------------------- buse_main
Issue(req, ok) == Append(ioctls, [req |-> req, ok |-> ok])

\* lines 204-205
MainSocketpair ==
  /\ pc = "socketpair"
  /\ \E err \in {0, -1} : pc' = IF err = 0 THEN "open" ELSE "aborted"
  /\ openFds' = IF pc' = "open" THEN openFds \cup {"sp0", "sp1"} ELSE openFds
  /\ UNCHANGED << sysFailed, sigInRequest, mainVars, childVars, serveVars, bigEndian, aop, retval >>

\* mutant of MainOpen: the result of open() is not checked
MainOpenUnchecked ==
  /\ pc = "open"
  /\ \E fd \in DevFds \cup {-1} : nbd' = fd
  /\ pc' = "set_blksize"
  /\ openFds' = IF nbd' # -1 THEN openFds \cup {"nbd"} ELSE openFds
  /\ UNCHANGED << sysFailed, sigInRequest, nbd_dev_to_disconnect, handlers, ioctls, forked,
                  nSignals, retval,
                  childVars, serveVars, bigEndian, aop >>

\* lines 207-214
MainOpen ==
  /\ pc = "open"
  /\ \E fd \in DevFds \cup {-1} :
       /\ nbd' = fd
       /\ IF fd = -1
          THEN pc' = "returned" /\ retval' = 1
          ELSE pc' = "set_blksize" /\ UNCHANGED retval
  /\ openFds' = IF nbd' # -1 THEN openFds \cup {"nbd"} ELSE openFds
  /\ UNCHANGED << sysFailed, sigInRequest, nbd_dev_to_disconnect, handlers, ioctls, forked,
                  nSignals,
                  childVars, serveVars, bigEndian, aop >>

\* mutant of Configure: the result of the request is not asserted
ConfigureUnchecked(here, req, next) ==
  /\ pc = here
  /\ \E set \in BOOLEAN :
       IF set
       THEN \E ok \in BOOLEAN :
              /\ ioctls' = Issue(req, ok)
              /\ pc' = next
       ELSE pc' = next /\ UNCHANGED ioctls
  /\ UNCHANGED << sysFailed, sigInRequest, openFds, nbd, nbd_dev_to_disconnect, handlers,
                  forked, nSignals,
                  childVars, serveVars, bigEndian, aop, retval >>

\* one geometry request (lines 216-219, 220-223, 224-227): issued when the
\* field of the operation table is not zero, and asserted to succeed.  Each
\* field is read once, so its value is chosen where it is read.
Configure(here, req, next) ==
  /\ pc = here
  /\ \E set \in BOOLEAN :
       IF set
       THEN \E ok \in BOOLEAN :
              /\ ioctls' = Issue(req, ok)
              /\ pc' = IF ok THEN next ELSE "aborted"
       ELSE pc' = next /\ UNCHANGED ioctls
  /\ UNCHANGED << sysFailed, sigInRequest, openFds, nbd, nbd_dev_to_disconnect, handlers,
                  forked, nSignals,
                  childVars, serveVars, bigEndian, aop, retval >>

MainSetBlksize    == Configure("set_blksize", "NBD_SET_BLKSIZE", "set_size")
MainSetSize       == Configure("set_size", "NBD_SET_SIZE", "set_size_blocks")
MainSetSizeBlocks == Configure("set_size_blocks", "NBD_SET_SIZE_BLOCKS", "clear_sock")

\* lines 229-230
MainClearSock ==
  /\ pc = "clear_sock"
  /\ \E ok \in BOOLEAN :
       /\ ioctls' = Issue("NBD_CLEAR_SOCK", ok)
       /\ pc' = IF ok THEN "fork" ELSE "aborted"
  /\ UNCHANGED << sysFailed, sigInRequest, openFds, nbd, nbd_dev_to_disconnect, handlers,
                  forked, nSignals,
                  childVars, serveVars, bigEndian, aop, retval >>

\* line 232: fork() makes the controller process, or fails with -1, which
\* the test of line 232 takes for the parent's side
MainFork ==
  /\ pc = "fork"
  /\ \E ok \in BOOLEAN :
       /\ forked' = Append(forked, ok)
       /\ childPc' = IF ok THEN "c_sigmask" ELSE childPc
  /\ pc' = "record_dev"
  /\ UNCHANGED << sysFailed, sigInRequest, openFds, nbd, nbd_dev_to_disconnect, handlers,
                  ioctls, nSignals,
                  childExit, childIoctls, serveVars, bigEndian, aop, retval >>

\* lines 278-279
MainRecordDev ==
  /\ pc = "record_dev"
  /\ IF nbd_dev_to_disconnect = -1
     THEN nbd_dev_to_disconnect' = nbd /\ pc' = "sigmask"
     ELSE pc' = "aborted" /\ UNCHANGED nbd_dev_to_disconnect
  /\ UNCHANGED << sysFailed, sigInRequest, openFds, nbd, handlers, ioctls, forked, nSignals,
                  childVars, serveVars, bigEndian, aop, retval >>

\* lines 280-290
MainSigmask ==
  /\ pc = "sigmask"
  /\ \E ok \in BOOLEAN :
       IF ok THEN pc' = "sigaction_int" /\ UNCHANGED retval
             ELSE pc' = "returned" /\ retval' = EXIT_FAILURE
  /\ UNCHANGED << sysFailed, sigInRequest, openFds, mainVars, childVars, serveVars, bigEndian,
                  aop >>

\* set_sigaction (lines 102-109) as called on lines 292 and 293
SetSigaction(here, sig, next) ==
  /\ pc = here
  /\ \E r \in {0, -1} :
       IF r = 0
       THEN /\ handlers' = handlers \cup {sig}
            /\ pc' = next
            /\ UNCHANGED retval
       ELSE /\ pc' = "returned"
            /\ retval' = EXIT_FAILURE
            /\ UNCHANGED handlers
  /\ UNCHANGED << sysFailed, sigInRequest, openFds, nbd, nbd_dev_to_disconnect, ioctls,
                  forked, nSignals,
                  childVars, serveVars, bigEndian, aop >>

MainSigactionInt  == SetSigaction("sigaction_int", "SIGINT", "sigaction_term")
MainSigactionTerm == SetSigaction("sigaction_term", "SIGTERM", "tmp_open")

\* lines 303-309, up to the call of serve_nbd
MainTmpOpen ==
  /\ pc = "tmp_open"
  /\ \E tmp_fd \in {6, -1} : pc' = IF tmp_fd = -1 THEN "aborted" ELSE "serve_init"
  /\ openFds' = IF pc' = "serve_init" THEN openFds \ {"sp1"} ELSE openFds
  /\ sysFailed' = (sysFailed \/ pc' = "aborted")
  /\ UNCHANGED << sigInRequest, mainVars, childVars, serveVars, bigEndian, aop, retval >>

\* mutant of Signal: the handler abandons the request being served
SignalSkipsRequest ==
  /\ pc \notin {"aborted", "killed"}
  /\ pc = "returned" => handlers # {}
  /\ nSignals < MaxSignals
  /\ nSignals' = nSignals + 1
  /\ \E sig \in {"SIGINT", "SIGTERM"} :
       IF sig \in handlers
       THEN /\ IF nbd_dev_to_disconnect # -1
               THEN \E ok \in BOOLEAN :
                      /\ ioctls' = Issue("NBD_DISCONNECT", ok)
                      /\ nbd_dev_to_disconnect' = IF ok THEN -1 ELSE nbd_dev_to_disconnect
               ELSE UNCHANGED << ioctls, nbd_dev_to_disconnect >>
            /\ pc' = IF InRequest THEN "break" ELSE pc
       ELSE /\ pc' = "killed"
            /\ UNCHANGED << ioctls, nbd_dev_to_disconnect >>
  /\ sigInRequest' = (sigInRequest \/ InRequest)
  /\ UNCHANGED << sysFailed, openFds, nbd, handlers, forked, childVars, serveVars, bigEndian,
                  aop, retval >>

\* mutant of Signal: the handler forgets the device even when the request fails
SignalClearOnFailure ==
  /\ pc \notin {"aborted", "killed"}
  /\ pc = "returned" => handlers # {}
  /\ nSignals < MaxSignals
  /\ nSignals' = nSignals + 1
  /\ \E sig \in {"SIGINT", "SIGTERM"} :
       IF sig \in handlers
       THEN /\ IF nbd_dev_to_disconnect # -1
               THEN \E ok \in BOOLEAN :
                      /\ ioctls' = Issue("NBD_DISCONNECT", ok)
                      /\ nbd_dev_to_disconnect' = -1
               ELSE UNCHANGED << ioctls, nbd_dev_to_disconnect >>
            /\ UNCHANGED pc
       ELSE /\ pc' = "killed"
            /\ UNCHANGED << ioctls, nbd_dev_to_disconnect >>
  /\ sigInRequest' = (sigInRequest \/ InRequest)
  /\ UNCHANGED << sysFailed, openFds, nbd, handlers, forked, childVars, serveVars, bigEndian,
                  aop, retval >>

\* mutant of Signal: the default action of the signal follows the handler
SignalThenDefault ==
  /\ pc \notin {"aborted", "killed"}
  /\ pc = "returned" => handlers # {}
  /\ nSignals < MaxSignals
  /\ nSignals' = nSignals + 1
  /\ \E sig \in {"SIGINT", "SIGTERM"} :
       IF sig \in handlers
       THEN /\ IF nbd_dev_to_disconnect # -1
               THEN \E ok \in BOOLEAN :
                      /\ ioctls' = Issue("NBD_DISCONNECT", ok)
                      /\ nbd_dev_to_disconnect' = IF ok THEN -1 ELSE nbd_dev_to_disconnect
               ELSE UNCHANGED << ioctls, nbd_dev_to_disconnect >>
            /\ pc' = "killed"
       ELSE /\ pc' = "killed"
            /\ UNCHANGED << ioctls, nbd_dev_to_disconnect >>
  /\ sigInRequest' = (sigInRequest \/ InRequest)
  /\ UNCHANGED << sysFailed, openFds, nbd, handlers, forked, childVars, serveVars, bigEndian,
                  aop, retval >>

\* --------------------------------------------- disconnect_nbd, lines 89-99
\* A signal is delivered to the server process: disconnect_nbd runs if it is
\* the action of the signal, the default action ends the process otherwise.
Signal ==
  /\ pc \notin {"aborted", "killed"}
  /\ pc = "returned" => handlers # {}
  /\ nSignals < MaxSignals
  /\ nSignals' = nSignals + 1
  /\ \E sig \in {"SIGINT", "SIGTERM"} :
       IF sig \in handlers
       THEN /\ IF nbd_dev_to_disconnect # -1
               THEN \E ok \in BOOLEAN :
                      /\ ioctls' = Issue("NBD_DISCONNECT", ok)
                      /\ nbd_dev_to_disconnect' = IF ok THEN -1 ELSE nbd_dev_to_disconnect
               ELSE UNCHANGED << ioctls, nbd_dev_to_disconnect >>
            /\ UNCHANGED pc
       ELSE /\ pc' = "killed"
            /\ UNCHANGED << ioctls, nbd_dev_to_disconnect >>
  /\ sigInRequest' = (sigInRequest \/ InRequest)
  /\ UNCHANGED << sysFailed, openFds, nbd, handlers, forked, childVars, serveVars, bigEndian,
                  aop, retval >>

\* ------------------------------------- the controller process, lines 233-274
ChildIssue(req, ok) == Append(childIoctls, [req |-> req, ok |-> ok])
parentVars == << pc, retval, mainVars, serveVars, bigEndian, aop,
                openFds, sysFailed, sigInRequest >>

\* lines 235-246
ChildBlockSignals ==
  /\ childPc = "c_sigmask"
  /\ \E ok \in BOOLEAN :
       IF ok THEN childPc' = "c_set_sock" /\ UNCHANGED childExit
             ELSE childPc' = "exited" /\ childExit' = EXIT_FAILURE
  /\ UNCHANGED << childIoctls, parentVars >>

\* lines 248-251
ChildSetSock ==
  /\ childPc = "c_set_sock"
  /\ \E ok \in BOOLEAN :
       /\ childIoctls' = ChildIssue("NBD_SET_SOCK", ok)
       /\ IF ok THEN childPc' = "c_set_flags" /\ UNCHANGED childExit
                ELSE childPc' = "exited" /\ childExit' = EXIT_FAILURE
  /\ UNCHANGED parentVars

\* lines 253-255
ChildSetFlags ==
  /\ childPc = "c_set_flags"
  /\ \E ok \in BOOLEAN :
       /\ childIoctls' = ChildIssue("NBD_SET_FLAGS", ok)
       /\ childPc' = IF ok THEN "c_do_it" ELSE "c_cleanup"
  /\ UNCHANGED << childExit, parentVars >>

\* lines 258-263: the request returns when the session of the device ends
ChildDoIt ==
  /\ childPc = "c_do_it"
  /\ \E ok \in BOOLEAN :
       /\ childIoctls' = ChildIssue("NBD_DO_IT", ok)
       /\ IF ok THEN childPc' = "c_cleanup" /\ UNCHANGED childExit
                ELSE childPc' = "exited" /\ childExit' = EXIT_FAILURE
  /\ UNCHANGED parentVars

\* lines 266-274
ChildCleanup ==
  /\ childPc = "c_cleanup"
  /\ \E okQue \in BOOLEAN :
       IF okQue
       THEN \E okSock \in BOOLEAN :
              /\ childIoctls' = Append(ChildIssue("NBD_CLEAR_QUE", TRUE),
                                       [req |-> "NBD_CLEAR_SOCK", ok |-> okSock])
              /\ childExit' = IF okSock THEN 0 ELSE EXIT_FAILURE
       ELSE /\ childIoctls' = ChildIssue("NBD_CLEAR_QUE", FALSE)
            /\ childExit' = EXIT_FAILURE
  /\ childPc' = "exited"
  /\ UNCHANGED parentVars

\* what the kernel driver sends in a session of the device
SessionRequests ==
  [ magic  : {Word(NBD_REQUEST_MAGIC)},
    type   : {Word(t) : t \in ReplyCmds \cup {NBD_CMD_DISC}},
    handle : {1},
    from   : {<< Word(0), Word(0) >>},
    len    : {Word(l) : l \in 0..MaxSessionLen} ]

SessionReadHeader == ReadHeaderFrom(SessionRequests, MaxSessionRequests)

Next ==
  \/ MainSocketpair \/ MainOpen \/ MainSetBlksize \/ MainSetSize \/ MainSetSizeBlocks
  \/ MainClearSock \/ MainFork \/ MainRecordDev \/ MainSigmask
  \/ MainSigactionInt \/ MainSigactionTerm \/ MainTmpOpen \/ Signal
  \/ ChildBlockSignals \/ ChildSetSock \/ ChildSetFlags \/ ChildDoIt \/ ChildCleanup
  \/ ServeInit \/ ReadError \/ ReadEof \/ ReadShort \/ SessionReadHeader
  \/ CmdRead \/ CmdWriteAlloc \/ ReadAllStep \/ CmdWrite \/ CmdDisc
  \/ CmdFlush \/ CmdTrim \/ WriteReplyStep \/ WriteChunkStep \/ Break

\* buse_main is called in a fresh process
Init ==
  /\ bigEndian \in BOOLEAN
  /\ aop \in SessionTables
  /\ pc = "socketpair"
  /\ retval = -1
  /\ request = NoRequest
  /\ reply = [magic |-> Word(0), error |-> Word(0), handle |-> 0]
  /\ len = 0 /\ from = << 0, 0 >>
  /\ chunk = "none" /\ count = 0 /\ bytes_read = 0
  /\ nReq = 0 /\ reqHandles = << >> /\ wire = << >>
  /\ hdrSent = 0 /\ paySent = 0 /\ payRead = 0 /\ cbCalled = {}
  /\ nbd = -1
  /\ nbd_dev_to_disconnect = -1
  /\ handlers = {}
  /\ ioctls = << >>
  /\ forked = << >>
  /\ childPc = "none" /\ childExit = -1 /\ childIoctls = << >>
  /\ nSignals = 0
  /\ openFds = {}
  /\ sysFailed = FALSE /\ sigInRequest = FALSE

Spec == Init /\ [][Next]_vars

\* --------------------------------------------------------------- liveness
\* The server process alone, with the scheduling it can rely on: a step of
\* buse_main or serve_nbd that does not wait for the peer is eventually
\* taken (callbacks return, the peer takes the replies), and once the
\* kernel has accepted NBD_DISCONNECT the read of the next request header
\* eventually returns: with a request still queued, with the DISCONNECT
\* request, with the end of the stream or with an error.
HeaderRead == ReadError \/ ReadEof \/ ReadShort \/ SessionReadHeader

ServerStep ==
  \/ MainSocketpair \/ MainOpen \/ MainSetBlksize \/ MainSetSize \/ MainSetSizeBlocks
  \/ MainClearSock \/ MainFork \/ MainRecordDev \/ MainSigmask
  \/ MainSigactionInt \/ MainSigactionTerm \/ MainTmpOpen
  \/ ServeInit \/ CmdRead \/ CmdWriteAlloc \/ ReadAllStep \/ CmdWrite \/ CmdDisc
  \/ CmdFlush \/ CmdTrim \/ WriteReplyStep \/ WriteChunkStep \/ Break

\* the kernel has accepted a disconnect request of the signal handler
DisconnectOk ==
  \E i \in 1..Len(ioctls) : ioctls[i] = [req |-> "NBD_DISCONNECT", ok |-> TRUE]

NextServer ==
  \/ MainSocketpair \/ MainOpen \/ MainSetBlksize \/ MainSetSize \/ MainSetSizeBlocks
  \/ MainClearSock \/ MainFork \/ MainRecordDev \/ MainSigmask
  \/ MainSigactionInt \/ MainSigactionTerm \/ MainTmpOpen \/ Signal
  \/ ServeInit \/ ReadError \/ ReadEof \/ ReadShort \/ SessionReadHeader
  \/ CmdRead \/ CmdWriteAlloc \/ ReadAllStep \/ CmdWrite \/ CmdDisc
  \/ CmdFlush \/ CmdTrim \/ WriteReplyStep \/ WriteChunkStep \/ Break

SpecLive ==
  /\ Init /\ [][NextServer]_vars
  /\ WF_vars(ServerStep)
  /\ WF_vars(DisconnectOk /\ HeaderRead)

\* ================================================================== claims
LastReply == wire[Len(wire)]
\* the callback of a command is set in the operation table
Registered(c) ==
  CASE c = NBD_CMD_READ  -> aop.read
    [] c = NBD_CMD_WRITE -> aop.write
    [] c = NBD_CMD_DISC  -> aop.disc
    [] c = NBD_CMD_FLUSH -> aop.flush
    [] c = NBD_CMD_TRIM  -> aop.trim
    [] OTHER             -> FALSE
\* the request in the buffer, as the peer sent it
ValidMagic == request.magic = Word(NBD_REQUEST_MAGIC)
PeerCmd    == Val(request.type)

\* C1: every READ, WRITE, FLUSH and TRIM request gets exactly one reply, the
\* replies are on the channel in the order of the requests, and the loop is
\* back at the read of the next header only when the reply of the previous
\* request, and the payload of a READ, has been written in full.
C1_OneReplyInOrder ==
  /\ Len(wire) <= Len(reqHandles)
  /\ Len(reqHandles) - Len(wire) <= 1
  /\ \A i \in 1..Len(wire) : wire[i].handle = reqHandles[i]
  /\ pc \in {"serve_loop", "break"} => Len(wire) = Len(reqHandles)
  /\ pc = "break" => /\ hdrSent = SizeofReply
                     /\ paySent = IF PeerCmd = NBD_CMD_READ THEN len ELSE 0
  /\ Len(wire) < Len(reqHandles) => hdrSent < SizeofReply /\ paySent = 0

C1_Witness ==
  /\ pc = "serve_loop"
  /\ Len(wire) = 2
  /\ wire[1].handle # wire[2].handle

\* C2: the handle of a reply is the handle of the request that triggered
\* it, whatever the earlier requests carried and the callback returned.
C2_ReplyHandle ==
  /\ (InRequest /\ PeerCmd \in ReplyCmds) => reply.handle = request.handle
  /\ pc = "break" => LastReply.handle = request.handle

C2_Witness ==
  /\ pc = "break"
  /\ Len(wire) = 2
  /\ wire[1].handle # wire[2].handle
  /\ WireStatus(wire[2]) # 0
  /\ cbCalled # {}

\* C3: a WRITE request of length L has exactly L payload bytes consumed
\* before the write callback runs and before any byte of the reply is
\* written, with or without a write callback and whatever it returns; the
\* reply has no payload.
C3_WritePayload ==
  (InRequest /\ PeerCmd = NBD_CMD_WRITE) =>
     /\ payRead <= len
     /\ paySent = 0
     /\ (cbCalled # {} \/ hdrSent > 0 \/ pc \in {"write_reply", "break"}) => payRead = len
     /\ \A c \in cbCalled : c.cb = "write" /\ c.len = len

C3_Witness ==
  /\ pc = "break"
  /\ PeerCmd = NBD_CMD_WRITE
  /\ len = MaxLen
  /\ payRead = MaxLen
  /\ WireStatus(LastReply) # 0

\* C4: a READ request of length L has the reply header written and then
\* exactly L payload bytes, with or without a read callback and whatever
\* the status.
C4_ReadPayload ==
  (InRequest /\ PeerCmd = NBD_CMD_READ) =>
     /\ payRead = 0
     /\ paySent <= len
     /\ paySent > 0 => hdrSent = SizeofReply
     /\ pc = "break" => hdrSent = SizeofReply /\ paySent = len

C4_Witness ==
  /\ pc = "break"
  /\ PeerCmd = NBD_CMD_READ
  /\ len = MaxLen
  /\ paySent = MaxLen
  /\ ~aop.read
  /\ WireStatus(LastReply) = EPERM

\* C5: on a DISCONNECT request the disc callback runs if it is set, no reply
\* is written, serve_nbd returns EXIT_SUCCESS, and nothing is read or
\* written after the return.
C5_Disconnect ==
  [][ /\ pc = "cmd_disc" =>
           /\ pc' = "returned"
           /\ retval' = EXIT_SUCCESS
           /\ cbCalled' = IF aop.disc THEN {NoCall("disc")} ELSE {}
           /\ UNCHANGED << wire, hdrSent, paySent, payRead, nReq >>
           /\ hdrSent = 0 /\ paySent = 0
      /\ pc = "returned" => UNCHANGED << wire, hdrSent, paySent, payRead, nReq, retval >>
    ]_vars

C5_Witness ==
  /\ pc = "returned"
  /\ ValidMagic /\ PeerCmd = NBD_CMD_DISC
  /\ cbCalled = {NoCall("disc")}
  /\ nReq = 2
  /\ Len(wire) = 1
  /\ retval = EXIT_SUCCESS

\* C6 as stated: a request whose operation has no callback is answered
\* with EPERM, and no callback runs for it.
C6_Original ==
  (pc = "break" /\ ~Registered(PeerCmd)) =>
     /\ WireStatus(LastReply) = EPERM
     /\ cbCalled = {}

\* C6 amended: a READ or WRITE request without its callback is answered
\* with EPERM, a FLUSH or TRIM request without its callback with success
\* (0); in both cases no callback runs for the request.
C6_Unregistered ==
  (pc = "break" /\ ~Registered(PeerCmd)) =>
     /\ WireStatus(LastReply) =
          IF PeerCmd \in {NBD_CMD_READ, NBD_CMD_WRITE} THEN EPERM ELSE 0
     /\ cbCalled = {}

C6_Witness ==
  /\ pc = "break"
  /\ PeerCmd = NBD_CMD_WRITE
  /\ ~aop.write /\ aop.read /\ aop.flush
  /\ ~bigEndian
  /\ WireStatus(LastReply) = EPERM

\* C7: a request whose callback is absent or returns a nonzero status does
\* not end the loop: once its error reply is written the loop is back at
\* the read of the next header, and serve_nbd returns only on a DISCONNECT
\* request or when the read of a header returns 0 or -1.
C7_ErrorsDoNotStop ==
  /\ [](pc = "returned" =>
          \/ bytes_read <= 0
          \/ (ValidMagic /\ PeerCmd = NBD_CMD_DISC))
  /\ [][(pc = "break" /\ WireStatus(LastReply) # 0) =>
          (pc' = "serve_loop" /\ retval' = -1 /\ nReq' = nReq)]_vars

C7_Witness ==
  /\ pc = "break"
  /\ Len(wire) = 2
  /\ WireStatus(wire[1]) # 0
  /\ WireStatus(wire[2]) = 0

\* C8: when the read of a header returns 0 serve_nbd returns EXIT_SUCCESS
\* and writes nothing; when it returns a part of a header the process
\* aborts and serve_nbd does not return.
C8_EndOfChannel ==
  [][(pc = "serve_loop" /\ pc' # "serve_loop") =>
       /\ bytes_read' = 0 =>
            /\ pc' = "returned" /\ retval' = EXIT_SUCCESS
            /\ UNCHANGED << wire, hdrSent, paySent, nReq >>
       /\ bytes_read' \in 1..(SizeofRequest - 1) =>
            /\ pc' = "aborted" /\ retval' = -1
            /\ UNCHANGED << wire, hdrSent, paySent, nReq >>
    ]_vars

C8_Witness ==
  /\ pc = "aborted"
  /\ bytes_read \in 1..(SizeofRequest - 1)
  /\ nReq = 1
  /\ Len(wire) = 1
  /\ retval = -1

\* C9: a request with a wrong magic or an unknown command type aborts the
\* process: no callback runs for it, no reply is written for it, and
\* serve_nbd does not return.
C9_BadRequestFatal ==
  (nReq > 0 /\ request # NoRequest /\ (~ValidMagic \/ PeerCmd \notin 0..NBD_CMD_TRIM)) =>
     /\ pc = "aborted"
     /\ retval = -1
     /\ cbCalled = {}
     /\ hdrSent = 0 /\ paySent = 0 /\ payRead = 0
     /\ Len(wire) = Len(reqHandles)

C9_Witness ==
  /\ pc = "aborted"
  /\ nReq = 2
  /\ ValidMagic
  /\ PeerCmd \notin 0..NBD_CMD_TRIM
  /\ aop.read /\ aop.write /\ aop.disc /\ aop.flush /\ aop.trim
  /\ Len(wire) = 1

\* C10: when the open of the device fails buse_main returns a nonzero
\* value and the process does not abort; no device request was issued, no
\* process forked, the disconnect state is inactive, no handler is
\* installed and the dispatch loop was not entered.
C10_OpenFails ==
  /\ [](pc = "returned" /\ nbd = -1 =>
          /\ retval \notin {0, -1}
          /\ ioctls = << >> /\ childIoctls = << >>
          /\ forked = << >> /\ childPc = "none"
          /\ nbd_dev_to_disconnect = -1
          /\ handlers = {}
          /\ nReq = 0 /\ wire = << >> /\ reply.magic = Word(0))
  /\ [][(pc = "open" /\ nbd' = -1 /\ pc' \notin {"open", "killed"}) =>
          pc' = "returned"]_vars

C10_Witness ==
  /\ pc = "returned"
  /\ nbd = -1
  /\ retval = 1

AllHandlers == handlers = {"SIGINT", "SIGTERM"}

Disconnects(ok) ==
  { i \in 1..Len(ioctls) : ioctls[i] = [req |-> "NBD_DISCONNECT", ok |-> ok] }

\* C12: a run of the handler disconnect_nbd (a signal that does not kill the
\* process) issues no device-control call when nbd_dev_to_disconnect is -1;
\* otherwise it issues exactly one NBD_DISCONNECT, after which
\* nbd_dev_to_disconnect is -1 if the request succeeded and unchanged if it
\* failed.  At most one NBD_DISCONNECT ever succeeds.
C12_HandlerOnce ==
  /\ [][(nSignals' = nSignals + 1 /\ pc' # "killed") =>
          IF nbd_dev_to_disconnect = -1
          THEN ioctls' = ioctls /\ nbd_dev_to_disconnect' = -1
          ELSE /\ Len(ioctls') = Len(ioctls) + 1
               /\ SubSeq(ioctls', 1, Len(ioctls)) = ioctls
               /\ ioctls'[Len(ioctls')].req = "NBD_DISCONNECT"
               /\ nbd_dev_to_disconnect' =
                    IF ioctls'[Len(ioctls')].ok THEN -1 ELSE nbd_dev_to_disconnect]_vars
  /\ [](Cardinality(Disconnects(TRUE)) <= 1)

\* a failed request was retried by a later signal and succeeded
C12_Witness ==
  /\ \E i \in Disconnects(FALSE) : \E j \in Disconnects(TRUE) : i < j
  /\ nbd_dev_to_disconnect = -1
  /\ nSignals = 2

\* the status the server process decided for the request just served: the
\* return value of the callback it called, else EPERM or the initial 0
DecidedStatus ==
  IF cbCalled # {} THEN (CHOOSE c \in cbCalled : TRUE).status
  ELSE IF PeerCmd \in {NBD_CMD_READ, NBD_CMD_WRITE} THEN EPERM ELSE 0

\* C13: a peer that decodes the status field of a reply from network byte
\* order obtains the status decided for the request: 0, EPERM for an absent
\* callback, or the value the read, write, flush or trim callback returned.
C13_StatusBigEndian ==
  (pc = "break" /\ ValidMagic) => WireStatus(LastReply) = DecidedStatus

\* C14: whenever NBD_DO_IT has returned, with success or with failure, the
\* controller process issues NBD_CLEAR_QUE and then NBD_CLEAR_SOCK before it
\* exits, and its exit code is 0 exactly when both requests succeeded.
C14_ControllerCleanup ==
  (childPc = "exited" /\ \E i \in 1..Len(childIoctls) : childIoctls[i].req = "NBD_DO_IT") =>
     LET n == Len(childIoctls) IN
       /\ n >= 3
       /\ childIoctls[n - 2].req = "NBD_DO_IT"
       /\ childIoctls[n - 1].req = "NBD_CLEAR_QUE"
       /\ childIoctls[n].req = "NBD_CLEAR_SOCK"
       /\ (childExit = 0) <=> (childIoctls[n - 1].ok /\ childIoctls[n].ok)

\* the place of a device-control request of the server process in buse_main
StartupRank(req) ==
  CASE req = "NBD_SET_BLKSIZE"     -> 1
    [] req = "NBD_SET_SIZE"        -> 2
    [] req = "NBD_SET_SIZE_BLOCKS" -> 3
    [] req = "NBD_CLEAR_SOCK"      -> 4
    [] OTHER                       -> 5
StartupFailed ==
  \E i \in 1..Len(ioctls) : StartupRank(ioctls[i].req) <= 4 /\ ~ioctls[i].ok

\* C15: the channel pair exists before the device is opened, the device is
\* open before any request is issued on it, the geometry requests and
\* NBD_CLEAR_SOCK are issued in that order and the fork comes after a
\* successful NBD_CLEAR_SOCK.  When a geometry request or NBD_CLEAR_SOCK has
\* failed the process has aborted, there was no fork, no controller process
\* exists and no NBD_SET_SOCK or NBD_DO_IT was issued.
C15_StartupOrder ==
  /\ nbd # -1 => "sp0" \in openFds
  /\ ioctls # << >> => nbd # -1
  /\ \A i, j \in 1..Len(ioctls) :
       (i < j /\ StartupRank(ioctls[j].req) <= 4) =>
          StartupRank(ioctls[i].req) < StartupRank(ioctls[j].req)
  /\ forked # << >> =>
       /\ ~StartupFailed
       /\ \E i \in 1..Len(ioctls) : ioctls[i] = [req |-> "NBD_CLEAR_SOCK", ok |-> TRUE]
  /\ (childPc # "none" \/ childIoctls # << >>) => (forked # << >> /\ forked[1])
  /\ StartupFailed =>
       /\ pc = "aborted"
       /\ forked = << >>
       /\ childPc = "none"
       /\ childIoctls = << >>

\* the second geometry request failed after the first succeeded
C15_Witness ==
  /\ pc = "aborted"
  /\ ioctls = << [req |-> "NBD_SET_BLKSIZE", ok |-> TRUE],
                 [req |-> "NBD_SET_SIZE", ok |-> FALSE] >>
  /\ forked = << >>

\* buse_main has returned what serve_nbd returned (line 309)
ServeReturned == pc = "returned" /\ forked # << >> /\ "sp1" \notin openFds

\* C16: when buse_main returns after the dispatch loop has returned, the
\* server process has closed the device it opened and the controller
\* process, if the fork made one, has been waited for.
C16_SessionDestroyed ==
  ServeReturned =>
     /\ "nbd" \notin openFds
     /\ childPc \in {"none", "reaped"}

\* C17: for a FLUSH or TRIM request the callback, when registered, has been
\* called (trim with the offset and length of the request) and the status
\* of the reply is the value it returned; when it is absent no callback has
\* been called and the status is 0.  The reply is the 16-byte header alone
\* and no payload has been read.
C17_FlushTrim ==
  (pc = "break" /\ ValidMagic /\ PeerCmd \in {NBD_CMD_FLUSH, NBD_CMD_TRIM}) =>
     /\ IF Registered(PeerCmd)
        THEN cbCalled =
               { IF PeerCmd = NBD_CMD_FLUSH
                 THEN [NoCall("flush") EXCEPT !.status = WireStatus(LastReply)]
                 ELSE [cb |-> "trim", len |-> len, from |-> from,
                       status |-> WireStatus(LastReply)] }
        ELSE cbCalled = {} /\ WireStatus(LastReply) = 0
     /\ hdrSent = SizeofReply
     /\ paySent = 0
     /\ payRead = 0

\* C18: a signal delivered while a request is being served changes neither
\* the place of the server process nor anything of the request; the loop
\* then ends only by that request being a DISCONNECT, and otherwise reaches
\* the end of the iteration with the callback called and the reply, and the
\* payload of a READ, written in full, unless a system call fails.
C18_SignalInFlight ==
  /\ [][(nSignals' = nSignals + 1 /\ InRequest) =>
          (pc' = pc /\ serveVars' = serveVars /\ sigInRequest')]_vars
  /\ [](sigInRequest =>
          /\ pc # "killed"
          /\ pc = "returned" => (PeerCmd = NBD_CMD_DISC /\ retval = EXIT_SUCCESS)
          /\ pc = "aborted" => sysFailed
          /\ pc = "break" =>
               /\ Len(wire) = Len(reqHandles)
               /\ LastReply.handle = request.handle
               /\ hdrSent = SizeofReply
               /\ paySent = IF PeerCmd = NBD_CMD_READ THEN len ELSE 0
               /\ Registered(PeerCmd) => cbCalled # {})

\* a signal came while a request was served, the disconnect request
\* succeeded, and the request was served to its end
C18_Witness ==
  /\ pc = "break"
  /\ sigInRequest
  /\ DisconnectOk
  /\ cbCalled # {}
  /\ hdrSent = SizeofReply

\* C19: each iteration starts from status 0: while the command of a request
\* is being handled and no status has been set for it, reply.error is 0, and
\* a FLUSH or TRIM whose callback is absent is answered with status 0,
\* whatever the status of the reply before it was.
C19_StatusReset ==
  /\ pc \in {"cmd_read", "cmd_write", "read_payload", "write_cb", "cmd_disc",
              "cmd_flush", "cmd_trim"} => reply.error = Word(0)
  /\ (/\ pc \in {"write_reply", "write_chunk", "break"}
      /\ ValidMagic
      /\ PeerCmd \in {NBD_CMD_FLUSH, NBD_CMD_TRIM}
      /\ ~Registered(PeerCmd)) =>
        /\ reply.error = Word(0)
        /\ pc = "break" => WireStatus(LastReply) = 0

\* a FLUSH without callback answered with 0 right after a reply with an error
C19_Witness ==
  /\ pc = "break"
  /\ Len(wire) = 2
  /\ WireStatus(wire[1]) # 0
  /\ PeerCmd = NBD_CMD_FLUSH
  /\ ~aop.flush
  /\ WireStatus(wire[2]) = 0

\* C20: whenever buse_main returns from a session, ended by a disconnect
\* that a signal requested, by a DISCONNECT request of the kernel or by the
\* end of the stream, nbd_dev_to_disconnect is -1, so that the assertion of
\* line 278 holds in a next call of buse_main.
C20_InactiveOnReturn ==
  ServeReturned => nbd_dev_to_disconnect = -1

====
